---- MODULE Spec2Model ----
(***************************************************************************)
(* Model of the number service: the AddNumber handler (insert, then list   *)
(* sorted), the two SQL statements it runs against the table `numbers`,    *)
(* and the lifecycle of main (listen, signal, graceful shutdown, pool      *)
(* close).                                                                 *)
(*                                                                         *)
(* A Go int (64 bit) is the tuple of its four 16-bit limbs, most           *)
(* significant first, in two's complement.  An int32 (the column type      *)
(* `integer` and the query parameter) is an integer in -2^31 .. 2^31-1.    *)
(***************************************************************************)
EXTENDS Integers, Sequences, FiniteSets, TLC

\* ------------------------------------------------------------------ bounds
MaxReqs == 2
MaxIds == 2

Reqs == 1..MaxReqs
IdSpace == 1..MaxIds

\* --------------------------------------------------------- program constants
ShutdownTimeout == 10

\* ------------------------------------------------------------ integer widths
LimbBase == 65536
SignLimb == 32768
AllOnes == 65535

\* a conversion that clamps to the int32 range instead of truncating
Int32OfSaturate(n) ==
    IF n[1] < SignLimb /\ (n[1] # 0 \/ n[2] # 0 \/ n[3] >= SignLimb)
    THEN (SignLimb - 1) * LimbBase + AllOnes
    ELSE IF n[1] >= SignLimb /\ (n[1] # AllOnes \/ n[2] # AllOnes \/ n[3] < SignLimb)
    THEN (0 - SignLimb) * LimbBase
    ELSE (IF n[3] >= SignLimb THEN n[3] - LimbBase ELSE n[3]) * LimbBase + n[4]

\* int32(n): keeps the low 32 bits of n and reads them as a signed value
Int32Of(n) ==
    (IF n[3] >= SignLimb THEN n[3] - LimbBase ELSE n[3]) * LimbBase + n[4]

IntOfZeroExtend(x) ==
    <<0, 0, (x \div LimbBase) % LimbBase, x % LimbBase>>

\* int(x): sign-extends the int32 x to 64 bits
IntOf(x) ==
    LET hi == (x \div LimbBase) % LimbBase
        lo == x % LimbBase
        ext == IF hi >= SignLimb THEN AllOnes ELSE 0
    IN  <<ext, ext, hi, lo>>

\* the request parameters the callers send (Go ints)
MinInt32 == <<AllOnes, AllOnes, SignLimb, 0>>
MaxInt32 == <<0, 0, SignLimb - 1, AllOnes>>
Zero == <<0, 0, 0, 0>>
TwoTo31 == <<0, 0, SignLimb, 0>>
Params == {MinInt32, Zero, MaxInt32, TwoTo31}

\* request parameters outside the int32 range: -2^31 - 1 and 2^32 + 5
BelowMinInt32 == <<AllOnes, AllOnes, SignLimb - 1, AllOnes>>
TwoTo32Plus5 == <<0, 1, 0, 5>>

\* ------------------------------------------------------------------- errors
NoErr == ""
ErrStore == "connection refused"
ErrDuplicateKey == "duplicate key value violates unique constraint"
ErrCanceled == "context canceled"
ErrClosedPool == "closed pool"

SprintfNoErr(format, err) == format

\* fmt.Sprintf with the single verb %v at the end of the format
Sprintf(format, err) == format \o err

VARIABLES
    numbers,     \* the table: sequence of rows [id, number] in storage order
    req,         \* per request: position in AddNumber, parameter, locals, response
    committed,   \* requests whose insert succeeded since the table was last cleared
    lastRead,    \* number column of the latest successful GetAllNumbersSorted
    fresh,       \* TRUE iff no insert happened since lastRead was taken
    mainPc,      \* position of main
    listener,    \* the listener of srv
    elapsed,     \* seconds elapsed of the shutdown context
    pool         \* the connection pool

vars == <<numbers, req, committed, lastRead, fresh, mainPc, listener, elapsed, pool>>

reqVars == <<numbers, req, committed, lastRead, fresh>>
mainVars == <<mainPc, listener, elapsed, pool>>

NoRow == [id |-> 0, number |-> 0]

NewReq ==
    [pc |-> "idle", number |-> Zero, ctx |-> "live", overlap |-> {},
     row |-> NoRow,
     insertErr |-> NoErr, listErr |-> NoErr, insertCalls |-> 0, listCalls |-> 0,
     status |-> 0, hasNumbers |-> FALSE, numbers |-> <<>>, error |-> NoErr]

InFlight(r) == req[r].pc \in {"started", "inserted"}

Init ==
    /\ numbers = <<>>
    /\ req = [r \in Reqs |-> NewReq]
    /\ committed = {}
    /\ lastRead = <<>>
    /\ fresh = FALSE
    /\ mainPc = "serving"
    /\ listener = "init"
    /\ elapsed = 0
    /\ pool = "open"

\* ------------------------------------------------------------ query layer
Ids(tbl) == {tbl[i].id : i \in 1..Len(tbl)}

\* the ids uuid_generate_v4() can draw for the next row.  Ids are opaque and
\* only compared for equality, so the least unused id stands for every id
\* that is not in the table; the used ids are the possible collisions.
NewIds(tbl) ==
    Ids(tbl) \cup {id \in IdSpace : /\ id \notin Ids(tbl)
                                    /\ \A other \in IdSpace \ Ids(tbl) : id <= other}

InsertNumberOverwrite(tbl, id, n) == <<[id |-> id, number |-> n]>>

\* INSERT INTO numbers (number) VALUES ($1) RETURNING id, number
\* with id drawn by uuid_generate_v4(); the primary key rejects a used id
InsertNumber(tbl, id, n) == Append(tbl, [id |-> id, number |-> n])

Orderings(n) ==
    {q \in [1..n -> 1..n] : \A i, j \in 1..n : i # j => q[i] # q[j]}

\* SELECT DISTINCT ON (number) ...
GetAllNumbersSortedDistinct(tbl) ==
    LET vals == {tbl[i].number : i \in 1..Len(tbl)}
        first(v) == CHOOSE i \in 1..Len(tbl) :
                       tbl[i].number = v /\ \A j \in 1..(i - 1) : tbl[j].number # v
        keep == {first(v) : v \in vals}
    IN  {s \in [1..Cardinality(keep) -> {tbl[i] : i \in keep}] :
            /\ \A i, j \in 1..Cardinality(keep) : i # j => s[i] # s[j]
            /\ \A i \in 1..(Cardinality(keep) - 1) : s[i].number <= s[i + 1].number}

\* ... without ORDER BY
GetAllNumbersUnsorted(tbl) ==
    {[i \in 1..Len(tbl) |-> tbl[p[i]]] : p \in Orderings(Len(tbl))}

\* ... ORDER BY number DESC
GetAllNumbersSortedDesc(tbl) ==
    {[i \in 1..Len(tbl) |-> tbl[p[i]]] :
        p \in {q \in Orderings(Len(tbl)) :
                 \A i \in 1..(Len(tbl) - 1) :
                    tbl[q[i]].number >= tbl[q[i + 1]].number}}

\* ... ORDER BY number ASC LIMIT 1
GetAllNumbersSortedLimit(tbl) ==
    {[i \in 1..(IF Len(tbl) = 0 THEN 0 ELSE 1) |-> tbl[p[i]]] :
        p \in {q \in Orderings(Len(tbl)) :
                 \A i \in 1..(Len(tbl) - 1) :
                    tbl[q[i]].number <= tbl[q[i + 1]].number}}

\* SELECT id, number FROM numbers ORDER BY number ASC: every ordering of the
\* rows that is non-decreasing in number (ties in any order)
GetAllNumbersSorted(tbl) ==
    {[i \in 1..Len(tbl) |-> tbl[p[i]]] :
        p \in {q \in Orderings(Len(tbl)) :
                 \A i \in 1..(Len(tbl) - 1) :
                    tbl[q[i]].number <= tbl[q[i + 1]].number}}

\* errors a query can return to a handler in the current state
QueryErrors(r) ==
    IF pool = "closed" THEN {ErrClosedPool}
    ELSE IF req[r].ctx = "canceled" THEN {ErrCanceled}
    ELSE {ErrStore}

QueryCanSucceed(r) == pool = "open" /\ req[r].ctx = "live"

\* ---------------------------------------------------------------- handler
ProcessAlive == mainPc # "exited"

\* a request arrives and AddNumber is entered; requests are numbered in
\* order of arrival
Start(r, n) ==
    /\ ProcessAlive
    /\ listener = "listening"
    /\ req[r].pc = "idle"
    /\ \A q \in Reqs : q < r => req[q].pc # "idle"
    /\ req' = [req EXCEPT ![r].pc = "started", ![r].number = n,
                          ![r].overlap = {q \in Reqs : InFlight(q)}]
    /\ UNCHANGED <<numbers, committed, lastRead, fresh, mainVars>>

InsertOKNoKey(r, id) ==
    /\ ProcessAlive
    /\ req[r].pc = "started"
    /\ QueryCanSucceed(r)
    /\ id \in NewIds(numbers)
    /\ numbers' = InsertNumber(numbers, id, Int32Of(req[r].number))
    /\ req' = [req EXCEPT ![r].pc = "inserted", ![r].insertCalls = @ + 1,
                          ![r].row = [id |-> id, number |-> Int32Of(req[r].number)]]
    /\ committed' = committed \cup {r}
    /\ fresh' = FALSE
    /\ UNCHANGED <<lastRead, mainVars>>

\* line 22, err == nil
InsertOK(r, id) ==
    /\ ProcessAlive
    /\ req[r].pc = "started"
    /\ QueryCanSucceed(r)
    /\ id \in NewIds(numbers)
    /\ id \notin Ids(numbers)
    /\ numbers' = InsertNumber(numbers, id, Int32Of(req[r].number))
    /\ req' = [req EXCEPT ![r].pc = "inserted", ![r].insertCalls = @ + 1,
                          ![r].row = [id |-> id, number |-> Int32Of(req[r].number)]]
    /\ committed' = committed \cup {r}
    /\ fresh' = FALSE
    /\ UNCHANGED <<lastRead, mainVars>>

Fail500(r, format, err) ==
    [req EXCEPT ![r].pc = "done", ![r].status = 500,
                ![r].error = Sprintf(format, err)]

\* lines 22-27, err != nil
InsertFail(r, id) ==
    /\ ProcessAlive
    /\ req[r].pc = "started"
    /\ id \in NewIds(numbers)
    /\ \E err \in QueryErrors(r) \cup
                  (IF QueryCanSucceed(r) /\ id \in Ids(numbers)
                   THEN {ErrDuplicateKey} ELSE {}) :
          req' = [Fail500(r, "failed to insert number: ", err)
                    EXCEPT ![r].insertErr = err, ![r].insertCalls = @ + 1]
    /\ UNCHANGED <<numbers, committed, lastRead, fresh, mainVars>>

\* lines 29, 36-43, err == nil
ListOK(r) ==
    /\ ProcessAlive
    /\ req[r].pc = "inserted"
    /\ QueryCanSucceed(r)
    /\ \E rows \in GetAllNumbersSorted(numbers) :
          /\ req' = [req EXCEPT ![r].pc = "done", ![r].status = 200,
                                ![r].listCalls = @ + 1,
                                ![r].hasNumbers = TRUE,
                                ![r].numbers =
                                    [i \in 1..Len(rows) |-> IntOf(rows[i].number)]]
          /\ lastRead' = [i \in 1..Len(rows) |-> rows[i].number]
    /\ fresh' = TRUE
    /\ UNCHANGED <<numbers, committed, mainVars>>

ListFailRollback(r) ==
    /\ ProcessAlive
    /\ req[r].pc = "inserted"
    /\ \E err \in QueryErrors(r) :
          req' = [Fail500(r, "failed to get numbers: ", err)
                    EXCEPT ![r].listErr = err, ![r].listCalls = @ + 1]
    /\ numbers' = SelectSeq(numbers, LAMBDA row : row # req[r].row)
    /\ UNCHANGED <<committed, lastRead, fresh, mainVars>>

\* lines 29-34, err != nil
ListFail(r) ==
    /\ ProcessAlive
    /\ req[r].pc = "inserted"
    /\ \E err \in QueryErrors(r) :
          req' = [Fail500(r, "failed to get numbers: ", err)
                    EXCEPT ![r].listErr = err, ![r].listCalls = @ + 1]
    /\ UNCHANGED <<numbers, committed, lastRead, fresh, mainVars>>

\* the inbound connection of an in-flight request is closed by its client
ClientCancel(r) ==
    /\ ProcessAlive
    /\ InFlight(r)
    /\ req[r].ctx = "live"
    /\ req' = [req EXCEPT ![r].ctx = "canceled"]
    /\ UNCHANGED <<numbers, committed, lastRead, fresh, mainVars>>

\* ------------------------------------------------------------------- main
\* lines 104-107: the goroutine reaches srv.ListenAndServe and binds
ListenAndServe ==
    /\ mainPc = "serving"
    /\ listener = "init"
    /\ listener' = "listening"
    /\ UNCHANGED <<reqVars, mainPc, elapsed, pool>>

\* lines 113-117: ListenAndServe returns an error, main returns
ServerFailed ==
    /\ mainPc = "serving"
    /\ listener' = "closed"
    /\ mainPc' = "returning"
    /\ UNCHANGED <<reqVars, elapsed, pool>>

SignalKeepListening ==
    /\ mainPc = "serving"
    /\ mainPc' = "shutdown"
    /\ elapsed' = 0
    /\ UNCHANGED <<reqVars, listener, pool>>

\* lines 118-124: a signal arrives, srv.Shutdown closes the listener and waits
Signal ==
    /\ mainPc = "serving"
    /\ listener' = "closed"
    /\ mainPc' = "shutdown"
    /\ elapsed' = 0
    /\ UNCHANGED <<reqVars, pool>>

Tick ==
    /\ mainPc = "shutdown"
    /\ elapsed < ShutdownTimeout
    /\ elapsed' = elapsed + 1
    /\ UNCHANGED <<reqVars, mainPc, listener, pool>>

\* line 124, err == nil: no request is in flight any more
ShutdownDone ==
    /\ mainPc = "shutdown"
    /\ \A r \in Reqs : ~InFlight(r)
    /\ mainPc' = "returning"
    /\ UNCHANGED <<reqVars, listener, elapsed, pool>>

\* lines 124-127, err != nil: the context expired, srv.Close closes the
\* connections of the requests still in flight
ShutdownExpired ==
    /\ mainPc = "shutdown"
    /\ elapsed = ShutdownTimeout
    /\ req' = [r \in Reqs |->
                 IF InFlight(r) THEN [req[r] EXCEPT !.ctx = "canceled"] ELSE req[r]]
    /\ mainPc' = "returning"
    /\ UNCHANGED <<numbers, committed, lastRead, fresh, listener, elapsed, pool>>

\* line 85: the deferred pool.Close() runs when main returns
PoolClose ==
    /\ mainPc = "returning"
    /\ pool' = "closed"
    /\ mainPc' = "closing"
    /\ UNCHANGED <<reqVars, listener, elapsed>>

\* main has returned: the process exits and takes the handlers with it
Exit ==
    /\ mainPc = "closing"
    /\ mainPc' = "exited"
    /\ UNCHANGED <<reqVars, listener, elapsed, pool>>

\* ------------------------------------------------------------ test fixtures
\* tests/integration_test.go, clearDatabase: one read, then DELETE FROM
\* numbers; the tests run one after another, so no request is in flight
ClearDatabase ==
    /\ \A r \in Reqs : ~InFlight(r)
    /\ \E rows \in GetAllNumbersSorted(numbers) :
          lastRead' = [i \in 1..Len(rows) |-> rows[i].number]
    /\ fresh' = FALSE
    /\ numbers' = <<>>
    /\ committed' = {}
    /\ UNCHANGED <<req, mainVars>>

\* tests/integration_test.go, TestAddNumber_VerifyDatabaseState: a read of
\* the table that bypasses the handler
DirectRead ==
    /\ \E rows \in GetAllNumbersSorted(numbers) :
          lastRead' = [i \in 1..Len(rows) |-> rows[i].number]
    /\ fresh' = TRUE
    /\ UNCHANGED <<numbers, req, committed, mainVars>>

\* ------------------------------------------------------------ specifications
\* the production path while the server is up
Next ==
    \/ ListenAndServe
    \/ \E r \in Reqs, n \in Params : Start(r, n)
    \/ \E r \in Reqs, id \in IdSpace : InsertOK(r, id)
    \/ \E r \in Reqs, id \in IdSpace : InsertFail(r, id)
    \/ \E r \in Reqs : ListOK(r)
    \/ \E r \in Reqs : ListFail(r)
    \/ \E r \in Reqs : ClientCancel(r)

Spec == Init /\ [][Next]_vars

\* requests issued one after another: each completes before the next starts
SeqNext ==
    \/ ListenAndServe
    \/ \E r \in Reqs, n \in Params :
          (\A q \in Reqs : ~InFlight(q)) /\ Start(r, n)
    \/ \E r \in Reqs, id \in IdSpace : InsertOK(r, id)
    \/ \E r \in Reqs, id \in IdSpace : InsertFail(r, id)
    \/ \E r \in Reqs : ListOK(r)
    \/ \E r \in Reqs : ListFail(r)
    \/ \E r \in Reqs : ClientCancel(r)

SpecSeq == Init /\ [][SeqNext]_vars

\* the production path together with the fixtures of the integration tests;
\* the test client sends every request with context.Background(), which is
\* never canceled, and every value it sends is in the int32 range
FixtureParams == {MinInt32, Zero, MaxInt32}

FixtureNext ==
    \/ ListenAndServe
    \/ \E r \in Reqs, n \in FixtureParams : Start(r, n)
    \/ \E r \in Reqs, id \in IdSpace : InsertOK(r, id)
    \/ \E r \in Reqs, id \in IdSpace : InsertFail(r, id)
    \/ \E r \in Reqs : ListOK(r)
    \/ \E r \in Reqs : ListFail(r)
    \/ ClearDatabase
    \/ DirectRead

SpecFixture == Init /\ [][FixtureNext]_vars

\* the production path with request numbers on both sides of the int32 range
WrapParams == {Zero, TwoTo31, BelowMinInt32, TwoTo32Plus5}

WrapNext ==
    \/ ListenAndServe
    \/ \E r \in Reqs, n \in WrapParams : Start(r, n)
    \/ \E r \in Reqs, id \in IdSpace : InsertOK(r, id)
    \/ \E r \in Reqs, id \in IdSpace : InsertFail(r, id)
    \/ \E r \in Reqs : ListOK(r)
    \/ \E r \in Reqs : ListFail(r)
    \/ \E r \in Reqs : ClientCancel(r)

SpecWrap == Init /\ [][WrapNext]_vars

\* the lifecycle of main around the requests
MainParams == {Zero}

MainNext ==
    \/ ListenAndServe
    \/ ServerFailed
    \/ Signal
    \/ Tick
    \/ ShutdownDone
    \/ ShutdownExpired
    \/ PoolClose
    \/ Exit
    \/ \E r \in Reqs, n \in MainParams : Start(r, n)
    \/ \E r \in Reqs, id \in IdSpace : InsertOK(r, id)
    \/ \E r \in Reqs, id \in IdSpace : InsertFail(r, id)
    \/ \E r \in Reqs : ListOK(r)
    \/ \E r \in Reqs : ListFail(r)
    \/ \E r \in Reqs : ClientCancel(r)

SpecMain == Init /\ [][MainNext]_vars

\* ---------------------------------------------------------------- properties
\* signed comparison of two Go ints
IntLeq(m, n) ==
    LET sm == IF m[1] >= SignLimb THEN m[1] - LimbBase ELSE m[1]
        sn == IF n[1] >= SignLimb THEN n[1] - LimbBase ELSE n[1]
        a == <<sm, m[2], m[3], m[4]>>
        b == <<sn, n[2], n[3], n[4]>>
    IN  \/ a = b
        \/ \E i \in 1..4 : a[i] < b[i] /\ \A j \in 1..(i - 1) : a[j] = b[j]

InRange(n) == IntLeq(MinInt32, n) /\ IntLeq(n, MaxInt32)

\* the Go int with the same numeric value as the int32 x
Lift(x) ==
    IF x >= 0 THEN <<0, 0, x \div LimbBase, x % LimbBase>>
    ELSE <<AllOnes, AllOnes, LimbBase + (x \div LimbBase), x % LimbBase>>

Range(s) == {s[i] : i \in 1..Len(s)}
Count(s, v) == Cardinality({i \in 1..Len(s) : s[i] = v})
SortedInts(s) == \A i \in 1..(Len(s) - 1) : IntLeq(s[i], s[i + 1])

\* the step in which the list of request r succeeds
ListOKStep(r) == req[r].pc = "inserted" /\ req'[r].status = 200
\* the step in which the insert of request r succeeds
InsertOKStep(r) == req[r].pc = "started" /\ req'[r].pc = "inserted"
\* the step in which the insert of request r fails
InsertFailStep(r) == req[r].pc = "started" /\ req'[r].insertErr # NoErr

TypeOK ==
    /\ \A i \in 1..Len(numbers) : numbers[i].id \in IdSpace
    /\ committed \subseteq Reqs
    /\ elapsed \in 0..ShutdownTimeout

\* C1: when requests are issued one after another against an empty store and
\* the first k of them get a 200 response for in-range values, the numbers of
\* the k-th response are the first k supplied values, sorted in
\* non-decreasing order, each as often as it was supplied.
C1_SequentialSortedMultiset ==
    \A k \in Reqs :
        (\A j \in 1..k : req[j].status = 200 /\ InRange(req[j].number)) =>
            /\ Len(req[k].numbers) = k
            /\ SortedInts(req[k].numbers)
            /\ \A v \in Params :
                  Count(req[k].numbers, v) =
                      Cardinality({j \in 1..k : req[j].number = v})

C1_Witness ==
    /\ \A j \in 1..2 : req[j].status = 200 /\ req[j].number = MaxInt32
    /\ req[2].numbers = <<MaxInt32, MaxInt32>>

\* a step in which the table is read directly, not through a handler
DirectReadStep == fresh' /\ UNCHANGED <<numbers, req, committed, mainVars>>

\* C2: once the insert of an in-range value v has succeeded, every later
\* successful sorted read, by a handler or directly, contains v, as long as
\* the table has not been cleared since.
C2_InsertedStaysVisible ==
    [][/\ \A r \in Reqs : ListOKStep(r) =>
             \A q \in committed : InRange(req[q].number) =>
                 req[q].number \in Range(req'[r].numbers)
       /\ DirectReadStep =>
             \A q \in committed : InRange(req[q].number) =>
                 \E i \in 1..Len(lastRead') : Lift(lastRead'[i]) = req[q].number
      ]_vars

C2_Witness ==
    /\ committed = {1, 2}
    /\ req[2].status = 200
    /\ req[1].number # req[2].number
    /\ req[1].number \in Range(req[2].numbers)
    /\ fresh
    /\ Len(lastRead) = 2

\* C3: for a request number v in the signed 32-bit range, the inserted row
\* holds exactly v and the 200 response holds exactly v; the smallest 32-bit
\* value is the first element of the response and the largest is the last.
C3_RoundTripExact ==
    /\ [][\A r \in Reqs : (InsertOKStep(r) /\ InRange(req[r].number)) =>
             /\ Len(numbers') = Len(numbers) + 1
             /\ Lift(numbers'[Len(numbers')].number) = req[r].number]_vars
    /\ [](\A r \in Reqs : (req[r].status = 200 /\ InRange(req[r].number)) =>
             /\ req[r].number \in Range(req[r].numbers)
             /\ req[r].number = MinInt32 => req[r].numbers[1] = MinInt32
             /\ req[r].number = MaxInt32 =>
                    req[r].numbers[Len(req[r].numbers)] = MaxInt32)

C3_Witness ==
    /\ req[1].status = 200 /\ req[1].number = MaxInt32
    /\ req[2].status = 200 /\ req[2].number = MinInt32
    /\ req[2].numbers = <<MinInt32, MaxInt32>>

\* C4: when InsertNumber fails, the request ends with a 500 response whose
\* message is the insert prefix followed by the underlying error, carries no
\* numbers, InsertNumber was called once and GetAllNumbersSorted never, and
\* the failing step leaves the table as it was.
C4_InsertFailure ==
    /\ [][\A r \in Reqs : InsertFailStep(r) => numbers' = numbers]_vars
    /\ [](\A r \in Reqs : req[r].insertErr # NoErr =>
             /\ req[r].pc = "done"
             /\ req[r].status = 500
             /\ req[r].error = "failed to insert number: " \o req[r].insertErr
             /\ ~req[r].hasNumbers
             /\ req[r].insertCalls = 1
             /\ req[r].listCalls = 0
             /\ req[r].row \notin Range(numbers))

C4_Witness ==
    /\ req[1].status = 200
    /\ req[2].insertErr = ErrDuplicateKey
    /\ req[2].error = "failed to insert number: duplicate key value violates unique constraint"
    /\ Len(numbers) = 1

\* C5: when InsertNumber succeeds and GetAllNumbersSorted then fails, the
\* response is a 500 without a numbers list, the row inserted by the request
\* stays in the table, and every later successful response contains its value.
C5_ListFailureKeepsInsert ==
    /\ [][\A r, q \in Reqs : (req[q].listErr # NoErr /\ ListOKStep(r)) =>
             Lift(req[q].row.number) \in Range(req'[r].numbers)]_vars
    /\ [](\A q \in Reqs : req[q].listErr # NoErr =>
             /\ req[q].pc = "done"
             /\ req[q].status = 500
             /\ ~req[q].hasNumbers
             /\ req[q].numbers = <<>>
             /\ req[q].insertErr = NoErr
             /\ req[q].row \in Range(numbers)
             /\ InRange(req[q].number) => Lift(req[q].row.number) = req[q].number)

C5_Witness ==
    /\ req[1].listErr = ErrCanceled
    /\ req[1].status = 500
    /\ req[2].status = 200
    /\ req[1].number # req[2].number
    /\ req[1].number \in Range(req[2].numbers)

\* C6: a successful sorted read that follows another successful sorted read
\* with no insert in between returns the same sequence of values, and leaves
\* the table unchanged.
C6_ReadIdempotent ==
    [][\A r \in Reqs : (ListOKStep(r) /\ fresh) =>
          /\ lastRead' = lastRead
          /\ req'[r].numbers = [i \in 1..Len(lastRead) |-> Lift(lastRead[i])]
          /\ numbers' = numbers]_vars

C6_Witness ==
    /\ fresh
    /\ req[1].status = 200
    /\ req[2].status = 200
    /\ req[1].numbers = req[2].numbers
    /\ Len(req[1].numbers) = 2
    /\ req[1].number # req[2].number

\* C7: whatever the interleaving of the insert and list steps of concurrent
\* requests, every 200 response is sorted ascending and contains the value
\* its own request inserted.
C7_ConcurrentSortedOwnValue ==
    \A r \in Reqs : req[r].status = 200 =>
        /\ SortedInts(req[r].numbers)
        /\ Lift(req[r].row.number) \in Range(req[r].numbers)
        /\ InRange(req[r].number) => req[r].number \in Range(req[r].numbers)

\* both outcomes for the other caller's value, in one pair of concurrent
\* requests: the response of 1 omits the value of 2, the response of 2
\* includes the value of 1
C7_Witness ==
    /\ 1 \in req[2].overlap
    /\ req[1].status = 200
    /\ req[2].status = 200
    /\ req[1].number # req[2].number
    /\ Lift(req[2].row.number) \notin Range(req[1].numbers)
    /\ Lift(req[1].row.number) \in Range(req[2].numbers)

\* C8: on the production path the ids of the stored rows are pairwise
\* distinct, a step never changes or removes a stored row, and the table
\* grows by exactly one row in a step in which an insert succeeds and by none
\* in every other step.
C8_RecordsOnlyGrow ==
    /\ [](\A i, j \in 1..Len(numbers) : i # j => numbers[i].id # numbers[j].id)
    /\ [][/\ Len(numbers') >= Len(numbers)
          /\ SubSeq(numbers', 1, Len(numbers)) = numbers
          /\ Len(numbers') - Len(numbers) =
                Cardinality({r \in Reqs : InsertOKStep(r)})
          /\ \A r \in Reqs : InsertFailStep(r) => Len(numbers') = Len(numbers)
         ]_vars

C8_Witness ==
    /\ Len(numbers) = 2
    /\ numbers[1].number = numbers[2].number
    /\ numbers[1].id # numbers[2].id

\* C9: after a termination signal the listener is closed and no new request
\* is taken; main leaves srv.Shutdown either when no request is in flight or
\* when the shutdown timeout has fully elapsed, and then the requests still in
\* flight have their connections closed; the pool is closed only after main
\* has left the shutdown, and never while the listener is open.
C9_ShutdownOrder ==
    /\ [](pool = "closed" => listener # "listening")
    /\ [](mainPc = "shutdown" =>
             listener = "closed" /\ pool = "open" /\ elapsed <= ShutdownTimeout)
    /\ [][\A r \in Reqs : (req[r].pc = "idle" /\ req'[r].pc # "idle") =>
             (mainPc = "serving" /\ listener = "listening")]_vars
    /\ [][(mainPc = "shutdown" /\ mainPc' # "shutdown") =>
             /\ pool' = "open"
             /\ \/ \A r \in Reqs : ~InFlight(r)
                \/ /\ elapsed = ShutdownTimeout
                   /\ \A r \in Reqs : InFlight(r) => req'[r].ctx = "canceled"]_vars
    /\ [][(pool = "open" /\ pool' = "closed") => mainPc = "returning"]_vars

C9_Witness ==
    /\ pool = "closed"
    /\ listener = "closed"
    /\ elapsed = ShutdownTimeout
    /\ req[1].pc = "inserted" /\ req[1].ctx = "canceled"
    /\ req[2].pc = "started" /\ req[2].ctx = "canceled"

\* C10: of two requests whose store operations all succeeded, at least one
\* has a response that contains both inserted values.
C10_OneSeesBoth ==
    \A a, b \in Reqs :
        (a # b /\ req[a].status = 200 /\ req[b].status = 200) =>
            \E x \in {a, b} :
                /\ Lift(req[a].row.number) \in Range(req[x].numbers)
                /\ Lift(req[b].row.number) \in Range(req[x].numbers)

C10_Witness ==
    /\ 1 \in req[2].overlap
    /\ req[1].status = 200
    /\ req[2].status = 200
    /\ req[1].number # req[2].number
    /\ req[1].number \notin Range(req[2].numbers)
    /\ req[1].numbers = <<MinInt32, MaxInt32>>

\* the value in the int32 range that is congruent to n modulo 2^32: it has
\* the low 32 bits of n
WrapsTo(n, w) == InRange(w) /\ w[3] = n[3] /\ w[4] = n[4]

\* C11: a request number outside the int32 range is not rejected: a 500
\* response only ever reports a store error, the inserted row holds the
\* number wrapped modulo 2^32 into the int32 range, and the 200 response
\* holds that wrapped value and not the number supplied.
C11_OutOfRangeWraps ==
    \A r \in Reqs : ~InRange(req[r].number) =>
        /\ req[r].status = 500 =>
              /\ req[r].insertErr # NoErr \/ req[r].listErr # NoErr
              /\ req[r].error \in
                    {"failed to insert number: " \o req[r].insertErr,
                     "failed to get numbers: " \o req[r].listErr}
        /\ req[r].pc = "inserted" =>
              /\ WrapsTo(req[r].number, Lift(req[r].row.number))
              /\ req[r].row \in Range(numbers)
        /\ req[r].status = 200 =>
              /\ WrapsTo(req[r].number, Lift(req[r].row.number))
              /\ Lift(req[r].row.number) # req[r].number
              /\ Lift(req[r].row.number) \in Range(req[r].numbers)
              /\ req[r].number \notin Range(req[r].numbers)
              /\ \A i \in 1..Len(req[r].numbers) : InRange(req[r].numbers[i])

C11_Witness ==
    /\ req[1].number = BelowMinInt32
    /\ req[1].status = 200
    /\ req[1].numbers = <<MaxInt32>>
    /\ req[2].number = TwoTo32Plus5
    /\ req[2].status = 200
    /\ req[2].numbers = <<<<0, 0, 0, 5>>, MaxInt32>>
====
